---------------------------- MODULE Spec2Model ----------------------------
(***************************************************************************)
(* Model of peros: the ROS bag processor (src/scripts/bag_processor.py)    *)
(* and the PCD reader of src/utils/rotate_pcd.py.                          *)
(*                                                                         *)
(*   Spec       process_bag_files reading one bag file message by message  *)
(*   SyncSpec   process_synchronized_batch applied to one batch            *)
(*   DecodeSpec extract_pointcloud2_data applied to one PointCloud2 message*)
(*   ImageSpec  process_bag_files reading Image messages decoded by        *)
(*              save_image_to_memory                                       *)
(*   OrderSpec  process_synchronized_batch on one batch in two orders of   *)
(*              insertion                                                  *)
(*   RunSpec    process_bag_files over the bag files of a directory        *)
(*   PcdSpec    write_pcd_file followed by read_pcd_file                   *)
(*   RotateSpec rotate_pcd_by_negating_yz applied twice                    *)
(*   ExtractSpec extract_image_data over the messages of a topic           *)
(*                                                                         *)
(* A Python dict is a sequence of [k, v] entries in insertion order.       *)
(* A payload (decoded point cloud or image) is the number of the message   *)
(* it was decoded from.                                                    *)
(***************************************************************************)
EXTENDS Integers, Sequences, FiniteSets

VARIABLES
    pc,                 \* "read" | "done" | "sync" | "synced" | "decode" | "decoded"
                        \* | "image" | "order" | "ordered" | "files" | "open1"
                        \* | "open2" | "messages" | "except" | "returned"
                        \* | "raised" | "pcd" | "written" | "parsed" | "rotate"
                        \* | "rotated" | "rotated_twice" | "extract"
                        \* | "extracted"
    batch_size,         \* process_bag_files parameter batch_size
    lidar_data,         \* dict timestamp -> points
    image_data,         \* defaultdict topic -> dict timestamp -> image info
    batch_index,        \* index of the next file name
    processed_messages, \* messages handled without an exception
    nread,              \* messages read from reader.messages() so far
    msg,                \* (connection, timestamp, rawdata) of the last message read
    calls,              \* every call of process_synchronized_batch: its
                        \* arguments and the synchronized_batch it built
    frames,             \* synchronized_batch entries of every call, in order
    pcd_writes,         \* write_pcd_file calls, in order: [index, points]
    jpg_writes,         \* image save calls, in order: [index, topic, image]
    desc,               \* scene_info written to desc.json, NoDesc before
    d_msg,              \* message given to extract_pointcloud2_data or to
                        \* save_image_to_memory
    d_out,              \* what the decoder did with d_msg
    run                 \* process_bag_files over the bag files: the file
                        \* being processed, the readers and the name "reader"

vars == <<pc, batch_size, lidar_data, image_data, batch_index,
          processed_messages, nread, msg, calls, frames, pcd_writes,
          jpg_writes, desc, d_msg, d_out, run>>

pipeline_vars == <<batch_size, lidar_data, image_data, batch_index,
                   processed_messages, nread, msg, calls, frames,
                   pcd_writes, jpg_writes, desc>>

decode_vars == <<d_msg, d_out>>

(***************************************************************************)
(* Bounds and input sets                                                   *)
(***************************************************************************)
MaxMsgs == 5
MaxBatch == 2
MaxRef == 3
MaxAux == 2
MaxLen == 24

Timestamps == {0, 1}
Topics == {"cam_a", "cam_b"}
SyncTimestamps == {0, 90, 100, 200, 250, 300}
PointSteps == {0, 1, 3, 4, 8, 12, 16}
Offsets == {0, 1, 4, 8, 12}
StartIndices == {0, 2}
FieldNames == {"x", "y", "z"}

\* Python's None where a timestamp is expected
None == -1

NoMsg == [kind |-> "none", topic |-> "", ts |-> None]
NoDesc == [written |-> FALSE]
NoDecode == [ran |-> FALSE]
NoRun == [files |-> 0]

(***************************************************************************)
(* Python dict and list helpers                                            *)
(***************************************************************************)
Abs(x) == IF x < 0 THEN -x ELSE x

Max2(a, b) == IF a >= b THEN a ELSE b

DictKeys(d) == {d[i].k : i \in 1..Len(d)}

DictGet(d, key) == d[CHOOSE i \in 1..Len(d) : d[i].k = key].v

\* d[key] = value that keeps the value of an existing key
DictSetKeepsOld(d, key, value) ==
    IF key \in DictKeys(d) THEN d
    ELSE Append(d, [k |-> key, v |-> value])

\* d[key] = value: an existing key keeps its place, a new key goes last
DictSet(d, key, value) ==
    IF key \in DictKeys(d)
    THEN [i \in 1..Len(d) |->
            IF d[i].k = key THEN [k |-> key, v |-> value] ELSE d[i]]
    ELSE Append(d, [k |-> key, v |-> value])

\* the values of a dict, as a set
DictValues(d) == {d[i].v : i \in 1..Len(d)}

RECURSIVE SumLen(_)
\* sum(len(imgs) for imgs in image_data.values())
SumLen(images) ==
    IF images = <<>> THEN 0
    ELSE Len(Head(images).v) + SumLen(Tail(images))

RECURSIVE MaxLenOf(_)
\* max([len(imgs) for imgs in image_data.values()] or [0])
MaxLenOf(images) ==
    IF images = <<>> THEN 0
    ELSE Max2(Len(Head(images).v), MaxLenOf(Tail(images)))

\* any(image_data.values())
AnyImages(images) == \E i \in 1..Len(images) : Len(images[i].v) > 0

RECURSIVE SortedSeq(_)
\* sorted(S) for a set of integers
SortedSeq(S) ==
    IF S = {} THEN <<>>
    ELSE LET m == CHOOSE x \in S : \A y \in S : x <= y
         IN <<m>> \o SortedSeq(S \ {m})

RECURSIVE ConcatAll(_)
ConcatAll(ss) == IF ss = <<>> THEN <<>> ELSE Head(ss) \o ConcatAll(Tail(ss))

(***************************************************************************)
(* find_closest_timestamp                                                  *)
(***************************************************************************)
RECURSIVE MinByDistanceLast(_, _, _)
\* mutant of MinByDistance: of two equally near timestamps the later wins
MinByDistanceLast(best, rest, target_ts) ==
    IF rest = <<>> THEN best
    ELSE IF Abs(Head(rest) - target_ts) <= Abs(best - target_ts)
         THEN MinByDistanceLast(Head(rest), Tail(rest), target_ts)
         ELSE MinByDistanceLast(best, Tail(rest), target_ts)

RECURSIVE MinByDistance(_, _, _)
\* min(timestamps, key=...): the first element whose key is the least
MinByDistance(best, rest, target_ts) ==
    IF rest = <<>> THEN best
    ELSE IF Abs(Head(rest) - target_ts) < Abs(best - target_ts)
         THEN MinByDistance(Head(rest), Tail(rest), target_ts)
         ELSE MinByDistance(best, Tail(rest), target_ts)

find_closest_timestamp(target_ts, timestamps) ==
    IF timestamps = <<>> THEN None
    ELSE MinByDistance(Head(timestamps), Tail(timestamps), target_ts)

\* "if closest_ts:" is false for None and for the timestamp 0
Truthy(closest_ts) == closest_ts # None /\ closest_ts # 0

(***************************************************************************)
(* process_synchronized_batch                                              *)
(***************************************************************************)
RECURSIVE SyncedImagesNoSkip(_, _)
\* mutant of SyncedImages: a topic without images is not skipped and gets
\* an entry without an image
SyncedImagesNoSkip(lidar_ts, image_data_batch) ==
    IF image_data_batch = <<>> THEN <<>>
    ELSE LET topic == Head(image_data_batch).k
             image_timestamps == SortedSeq(DictKeys(Head(image_data_batch).v))
             closest_ts == find_closest_timestamp(lidar_ts, image_timestamps)
             rest == SyncedImagesNoSkip(lidar_ts, Tail(image_data_batch))
         IN IF image_timestamps = <<>>
            THEN <<[k |-> topic, v |-> None]>> \o rest
            ELSE IF Truthy(closest_ts)
                 THEN <<[k |-> topic,
                         v |-> DictGet(Head(image_data_batch).v, closest_ts)]>>
                      \o rest
                 ELSE rest

RECURSIVE SyncedImages(_, _)
\* synced_images of one lidar timestamp: a dict topic -> image info
SyncedImages(lidar_ts, image_data_batch) ==
    IF image_data_batch = <<>> THEN <<>>
    ELSE LET topic == Head(image_data_batch).k
             image_timestamps == SortedSeq(DictKeys(Head(image_data_batch).v))
             closest_ts == find_closest_timestamp(lidar_ts, image_timestamps)
             rest == SyncedImages(lidar_ts, Tail(image_data_batch))
         IN IF image_timestamps = <<>> THEN rest
            ELSE IF Truthy(closest_ts)
                 THEN <<[k |-> topic,
                         v |-> DictGet(Head(image_data_batch).v, closest_ts)]>>
                      \o rest
                 ELSE rest

\* mutant of FrameIndex: the start index is not added
FrameIndexNoStart(start_index, i) == i

\* start_index + i for the i-th entry of enumerate(lidar_timestamps)
FrameIndex(start_index, i) == start_index + i

\* synchronized_batch with the point clouds taken in insertion order
SynchronizedBatchUnsorted(lidar_data_batch, image_data_batch, start_index) ==
    [i \in 1..Len(lidar_data_batch) |->
       [ts     |-> lidar_data_batch[i].k,
        images |-> SyncedImages(lidar_data_batch[i].k, image_data_batch),
        index  |-> FrameIndex(start_index, i - 1)]]

\* synchronized_batch: one (lidar_ts, synced_images, index) per lidar timestamp
SynchronizedBatch(lidar_data_batch, image_data_batch, start_index) ==
    LET lidar_timestamps == SortedSeq(DictKeys(lidar_data_batch))
    IN [i \in 1..Len(lidar_timestamps) |->
          [ts     |-> lidar_timestamps[i],
           images |-> SyncedImages(lidar_timestamps[i], image_data_batch),
           index  |-> FrameIndex(start_index, i - 1)]]

\* the point cloud files written for a synchronized batch
BatchPcdWrites(batch, lidar_data_batch) ==
    [i \in 1..Len(batch) |->
       [index |-> batch[i].index, points |-> DictGet(lidar_data_batch, batch[i].ts)]]

\* the image files written for a synchronized batch: every topic of a frame
\* is saved under the frame's base file name
BatchJpgWrites(batch) ==
    ConcatAll([i \in 1..Len(batch) |->
                 [j \in 1..Len(batch[i].images) |->
                    [index |-> batch[i].index,
                     topic |-> batch[i].images[j].k,
                     image |-> batch[i].images[j].v]]])

(***************************************************************************)
(* process_bag_files: one bag file                                         *)
(***************************************************************************)
\* image_data[topic][timestamp] = info on a defaultdict(dict)
ImageInsert(images, topic, ts, info) ==
    LET old == IF topic \in DictKeys(images) THEN DictGet(images, topic) ELSE <<>>
    IN DictSet(images, topic, DictSet(old, ts, info))

\* the batch-size test that follows every handled message
FlushTrigger(lidar, images, size) ==
    Len(lidar) >= size \/ SumLen(images) >= size

\* the test guarding the call of process_synchronized_batch
HasSyncData(lidar, images) == Len(lidar) > 0 /\ AnyImages(images)

\* mutant of NextBatchIndex: the index is not advanced after a batch
NextBatchIndexKept(index, lidar, images) == index

\* batch_index after a batch was processed
NextBatchIndex(index, lidar, images) ==
    index + Max2(Len(lidar), MaxLenOf(images))

\* mutant of ClearLidar: the point clouds stay buffered after a batch
ClearLidarKept(lidar) == lidar

\* lidar_data.clear()
ClearLidar(lidar) == <<>>

\* for topic in image_data: image_data[topic].clear()
ClearImages(images) ==
    [i \in 1..Len(images) |-> [k |-> images[i].k, v |-> <<>>]]

\* The rest of the loop body once the message is buffered: count it, then
\* flush when the batch size is reached.
AfterMessage(lidar, images) ==
    /\ processed_messages' = processed_messages + 1
    /\ IF FlushTrigger(lidar, images, batch_size) /\ HasSyncData(lidar, images)
       THEN LET batch == SynchronizedBatch(lidar, images, batch_index)
            IN /\ calls' = Append(calls, [lidar |-> lidar, images |-> images,
                                          start_index |-> batch_index,
                                          batch |-> batch])
               /\ frames' = frames \o batch
               /\ pcd_writes' = pcd_writes \o BatchPcdWrites(batch, lidar)
               /\ jpg_writes' = jpg_writes \o BatchJpgWrites(batch)
               /\ batch_index' = NextBatchIndex(batch_index, lidar, images)
               /\ lidar_data' = ClearLidar(lidar)
               /\ image_data' = ClearImages(images)
       ELSE /\ lidar_data' = lidar
            /\ image_data' = images
            /\ UNCHANGED <<calls, frames, pcd_writes, jpg_writes, batch_index>>

CanRead == pc = "read" /\ nread < MaxMsgs

\* a PointCloud2 message that decodes to at least one point
ReadLidar(ts) ==
    /\ CanRead
    /\ nread' = nread + 1
    /\ msg' = [kind |-> "lidar", topic |-> "", ts |-> ts]
    /\ AfterMessage(DictSet(lidar_data, ts, nread + 1), image_data)
    /\ UNCHANGED <<pc, batch_size, desc, decode_vars, run>>

\* a PointCloud2 message that decodes to no point
ReadLidarEmpty ==
    /\ CanRead
    /\ nread' = nread + 1
    /\ msg' = [kind |-> "lidar_empty", topic |-> "", ts |-> None]
    /\ AfterMessage(lidar_data, image_data)
    /\ UNCHANGED <<pc, batch_size, desc, decode_vars, run>>

\* an Image message that save_image_to_memory turns into an image
ReadImage(topic, ts) ==
    /\ CanRead
    /\ nread' = nread + 1
    /\ msg' = [kind |-> "image", topic |-> topic, ts |-> ts]
    /\ AfterMessage(lidar_data, ImageInsert(image_data, topic, ts, nread + 1))
    /\ UNCHANGED <<pc, batch_size, desc, decode_vars, run>>

\* an Image message for which save_image_to_memory returns None
ReadImageNone(topic) ==
    /\ CanRead
    /\ nread' = nread + 1
    /\ msg' = [kind |-> "image_none", topic |-> topic, ts |-> None]
    /\ AfterMessage(lidar_data, image_data)
    /\ UNCHANGED <<pc, batch_size, desc, decode_vars, run>>

\* a message of any other type
ReadOther ==
    /\ CanRead
    /\ nread' = nread + 1
    /\ msg' = [kind |-> "other", topic |-> "", ts |-> None]
    /\ AfterMessage(lidar_data, image_data)
    /\ UNCHANGED <<pc, batch_size, desc, decode_vars, run>>

\* the exception of a message is not caught: the log ends there
ReadRaisesAborts ==
    /\ CanRead
    /\ nread' = nread + 1
    /\ msg' = [kind |-> "raised", topic |-> "", ts |-> None]
    /\ pc' = "done"
    /\ UNCHANGED <<batch_size, lidar_data, image_data, batch_index,
                   processed_messages, calls, frames, pcd_writes, jpg_writes,
                   desc, decode_vars, run>>

\* the message that raised is counted like a handled one
ReadRaisesCounted ==
    /\ CanRead
    /\ nread' = nread + 1
    /\ msg' = [kind |-> "raised", topic |-> "", ts |-> None]
    /\ processed_messages' = processed_messages + 1
    /\ UNCHANGED <<pc, batch_size, lidar_data, image_data, batch_index,
                   calls, frames, pcd_writes, jpg_writes, desc, decode_vars, run>>

\* deserialization or decoding raises: "continue" skips the rest of the body
ReadRaises ==
    /\ CanRead
    /\ nread' = nread + 1
    /\ msg' = [kind |-> "raised", topic |-> "", ts |-> None]
    /\ UNCHANGED <<pc, batch_size, lidar_data, image_data, batch_index,
                   processed_messages, calls, frames, pcd_writes, jpg_writes,
                   desc, decode_vars, run>>

\* the raw-save branch writes no point cloud
RawPcdWritesNone(lidar, index) == <<>>

\* the point cloud files of the raw-save branch: batch_index + idx
RawPcdWrites(lidar, index) ==
    [i \in 1..Len(lidar) |-> [index |-> index + (i - 1), points |-> lidar[i].v]]

\* the image files of the raw-save branch: batch_index + img_idx, img_idx
\* running over all topics
RawJpgWrites(images, index) ==
    LET all == ConcatAll([i \in 1..Len(images) |->
                   [j \in 1..Len(images[i].v) |->
                      [topic |-> images[i].k, image |-> images[i].v[j].v]]])
    IN [n \in 1..Len(all) |->
          [index |-> index + (n - 1), topic |-> all[n].topic, image |-> all[n].image]]

\* scene_info
SceneInfo == [written |-> TRUE,
              lidar_count |-> processed_messages,
              camera_topics |-> [i \in 1..Len(image_data) |-> image_data[i].k],
              synchronized_frames |-> batch_index]

\* The reader is exhausted: the remaining data, then desc.json.
EndOfLog ==
    /\ pc = "read"
    /\ pc' = "done"
    /\ IF HasSyncData(lidar_data, image_data)
       THEN LET batch == SynchronizedBatch(lidar_data, image_data, batch_index)
            IN /\ calls' = Append(calls, [lidar |-> lidar_data,
                                          images |-> image_data,
                                          start_index |-> batch_index,
                                          batch |-> batch])
               /\ frames' = frames \o batch
               /\ pcd_writes' = pcd_writes \o BatchPcdWrites(batch, lidar_data)
               /\ jpg_writes' = jpg_writes \o BatchJpgWrites(batch)
       ELSE IF Len(lidar_data) > 0 \/ AnyImages(image_data)
       THEN /\ pcd_writes' = pcd_writes \o RawPcdWrites(lidar_data, batch_index)
            /\ jpg_writes' = jpg_writes \o RawJpgWrites(image_data, batch_index)
            /\ UNCHANGED <<calls, frames>>
       ELSE UNCHANGED <<calls, frames, pcd_writes, jpg_writes>>
    /\ desc' = SceneInfo
    /\ UNCHANGED <<batch_size, lidar_data, image_data, batch_index,
                   processed_messages, nread, msg, decode_vars, run>>

Init ==
    /\ pc = "read"
    /\ batch_size \in 1..MaxBatch
    /\ lidar_data = <<>>
    /\ image_data = <<>>
    /\ batch_index = 0
    /\ processed_messages = 0
    /\ nread = 0
    /\ msg = NoMsg
    /\ calls = <<>>
    /\ frames = <<>>
    /\ pcd_writes = <<>>
    /\ jpg_writes = <<>>
    /\ desc = NoDesc
    /\ d_msg = NoDecode
    /\ d_out = NoDecode
    /\ run = NoRun

Next ==
    \/ \E ts \in Timestamps : ReadLidar(ts)
    \/ ReadLidarEmpty
    \/ \E topic \in Topics, ts \in Timestamps : ReadImage(topic, ts)
    \/ \E topic \in Topics : ReadImageNone(topic)
    \/ ReadOther
    \/ ReadRaises
    \/ EndOfLog

Spec == Init /\ [][Next]_vars

(***************************************************************************)
(* SyncSpec: process_synchronized_batch on one batch.  The batches are    *)
(* those process_bag_files can pass: some point cloud and some image.     *)
(***************************************************************************)
\* a dict with the keys inserted in the order given, payloads numbered
\* from first
DictOfSeq(keys, first) ==
    [i \in 1..Len(keys) |-> [k |-> keys[i], v |-> first + (i - 1)]]

DictOf(S, first) == DictOfSeq(SortedSeq(S), first)

Reverse(seq) == [i \in 1..Len(seq) |-> seq[Len(seq) + 1 - i]]

TopicOrders == {<<>>, <<"cam_a">>, <<"cam_b">>,
                <<"cam_a", "cam_b">>, <<"cam_b", "cam_a">>}

\* point clouds buffered in ascending or in descending timestamp order
LidarBatches ==
    UNION {{DictOfSeq(SortedSeq(S), 1), DictOfSeq(Reverse(SortedSeq(S)), 1)} :
           S \in {R \in SUBSET SyncTimestamps : Cardinality(R) <= MaxRef}}

ImageBatches ==
    {[i \in 1..Len(order) |->
        [k |-> order[i],
         v |-> DictOf(content[order[i]], 1 + i * Cardinality(SyncTimestamps))]] :
     order \in TopicOrders,
     content \in {c \in [Topics -> SUBSET SyncTimestamps] :
                    Cardinality(c["cam_a"]) + Cardinality(c["cam_b"]) <= MaxAux}}

SyncInit ==
    /\ pc = "sync"
    /\ batch_size = 1
    /\ lidar_data \in LidarBatches
    /\ image_data \in ImageBatches
    /\ HasSyncData(lidar_data, image_data)
    /\ batch_index \in StartIndices
    /\ processed_messages = 0
    /\ nread = 0
    /\ msg = NoMsg
    /\ calls = <<>>
    /\ frames = <<>>
    /\ pcd_writes = <<>>
    /\ jpg_writes = <<>>
    /\ desc = NoDesc
    /\ d_msg = NoDecode
    /\ d_out = NoDecode
    /\ run = NoRun

SyncCall ==
    /\ pc = "sync"
    /\ pc' = "synced"
    /\ LET batch == SynchronizedBatch(lidar_data, image_data, batch_index)
       IN /\ calls' = Append(calls, [lidar |-> lidar_data, images |-> image_data,
                                     start_index |-> batch_index,
                                          batch |-> batch])
          /\ frames' = batch
          /\ pcd_writes' = BatchPcdWrites(batch, lidar_data)
          /\ jpg_writes' = BatchJpgWrites(batch)
    /\ UNCHANGED <<batch_size, lidar_data, image_data, batch_index,
                   processed_messages, nread, msg, desc, decode_vars, run>>

SyncNext == SyncCall

SyncSpec == SyncInit /\ [][SyncNext]_vars

(***************************************************************************)
(* DecodeSpec: extract_pointcloud2_data on one message.  The byte at      *)
(* position j of data is j; an unpacked float is the 4 bytes it was read  *)
(* from.                                                                   *)
(***************************************************************************)
\* data[a:b] of a buffer of n bytes, 0 <= a <= b
Slice(n, a, b) ==
    [j \in 1..(IF a >= n THEN 0 ELSE (IF b > n THEN n ELSE b) - a) |-> a + (j - 1)]

\* fields.get(name, default)
FieldGet(fields, name, default) ==
    IF name \in DOMAIN fields THEN fields[name] ELSE default

\* the coordinate offsets inside a point record, 0, 4 and 8 when the field
\* is not declared
XOffset(m) == FieldGet(m.fields, "x", 0)

YOffset(m) == FieldGet(m.fields, "y", 4)

ZOffset(m) == FieldGet(m.fields, "z", 8)

\* float_struct.unpack raises struct.error unless it gets 4 bytes
UnpackRaises(bytes) == Len(bytes) # 4

\* mutant of PointGuard: the last point of a buffer that fits exactly is
\* refused
PointGuardStrict(x_offset, n) == x_offset + 4 < n

\* the x read is guarded by "if x_offset + 4 <= len(data)"
PointGuard(x_offset, n) == x_offset + 4 <= n

RECURSIVE DecodeFrom(_, _, _, _, _)
\* the loop "for i in range(num_points)" from i on, points decoded so far
DecodeFrom(i, num_points, m, n, points) ==
    IF i >= num_points THEN [ran |-> TRUE, raised |-> FALSE, points |-> points]
    ELSE LET offset == i * m.point_step
             x_offset == offset + XOffset(m)
             y_offset == offset + YOffset(m)
             z_offset == offset + ZOffset(m)
             x == Slice(n, x_offset, x_offset + 4)
             y == Slice(n, y_offset, y_offset + 4)
             z == Slice(n, z_offset, z_offset + 4)
         IN IF PointGuard(x_offset, n)
            THEN IF UnpackRaises(x) \/ UnpackRaises(y) \/ UnpackRaises(z)
                 THEN [ran |-> TRUE, raised |-> TRUE, points |-> <<>>]
                 ELSE DecodeFrom(i + 1, num_points, m, n, points \o <<x, y, z>>)
            ELSE DecodeFrom(i + 1, num_points, m, n, points)

\* extract_pointcloud2_data without the test of msg.data: bytes(None) and
\* the division by a point step of 0 raise
extract_pointcloud2_unchecked(m) ==
    IF m.data_len = None \/ m.point_step = 0
    THEN [ran |-> TRUE, raised |-> TRUE, points |-> <<>>]
    ELSE DecodeFrom(0, m.data_len \div m.point_step, m, m.data_len, <<>>)

extract_pointcloud2_data(m) ==
    IF m.data_len = None \/ m.data_len = 0
    THEN [ran |-> TRUE, raised |-> FALSE, points |-> <<>>]
    ELSE IF m.point_step = 0
    THEN [ran |-> TRUE, raised |-> TRUE, points |-> <<>>]
    ELSE DecodeFrom(0, m.data_len \div m.point_step, m, m.data_len, <<>>)

FieldLayouts ==
    UNION {[names -> Offsets] : names \in SUBSET FieldNames}

DecodeInit ==
    /\ pc = "decode"
    /\ d_msg \in [ran : {TRUE},
                  point_step : PointSteps,
                  data_len : {None} \cup 0..MaxLen,
                  fields : FieldLayouts]
    /\ d_out = NoDecode
    /\ run = NoRun
    /\ batch_size = 1
    /\ lidar_data = <<>>
    /\ image_data = <<>>
    /\ batch_index = 0
    /\ processed_messages = 0
    /\ nread = 0
    /\ msg = NoMsg
    /\ calls = <<>>
    /\ frames = <<>>
    /\ pcd_writes = <<>>
    /\ jpg_writes = <<>>
    /\ desc = NoDesc

Decode ==
    /\ pc = "decode"
    /\ pc' = "decoded"
    /\ d_out' = extract_pointcloud2_data(d_msg)
    /\ UNCHANGED <<d_msg, pipeline_vars, run>>

DecodeNext == Decode

DecodeSpec == DecodeInit /\ [][DecodeNext]_vars


(***************************************************************************)
(* Claims about process_bag_files (Spec)                                   *)
(***************************************************************************)
\* the steps that handle a message without an exception
HandledStep == pc = "read" /\ nread' = nread + 1 /\ msg'.kind # "raised"

\* the buffers once the message of the step is stored, before the batch-size
\* test
BufferedLidar ==
    IF msg'.kind = "lidar" THEN DictSet(lidar_data, msg'.ts, nread') ELSE lidar_data

BufferedImages ==
    IF msg'.kind = "image"
    THEN ImageInsert(image_data, msg'.topic, msg'.ts, nread')
    ELSE image_data

\* the messages of one call of process_synchronized_batch
BatchMessages(call) ==
    DictValues(call.lidar)
    \cup UNION {DictValues(call.images[i].v) : i \in 1..Len(call.images)}

\* C1: the frame indices assigned over all calls of
\* process_synchronized_batch of one log are exactly 0 .. N-1, N the number
\* of frames produced.  The code advances batch_index by the larger of the
\* point cloud count and the largest image count, so this fails.
C1_IndexContiguity ==
    {frames[i].index : i \in 1..Len(frames)} = 0..(Len(frames) - 1)

\* C2: no point cloud file index is used twice within one log, over the
\* batches of the loop, the final batch and the raw-save branch.
C2_NoIndexReuse ==
    /\ \A i, j \in 1..Len(pcd_writes) :
          i # j => pcd_writes[i].index # pcd_writes[j].index
    /\ \A i, j \in 1..Len(frames) : i # j => frames[i].index # frames[j].index

\* a flushed batch followed by the raw-save branch, at least two files
C2_Witness ==
    /\ pc = "done"
    /\ Len(calls) >= 1
    /\ Len(pcd_writes) > Len(frames)
    /\ Len(frames) >= 1

\* C5: after every handled message fewer than batch_size point clouds and
\* fewer than batch_size images are buffered.  The code flushes only when
\* both kinds are buffered, so this fails.
C5_BuffersBelowBatchSize ==
    (pc = "read" /\ msg.kind # "raised") =>
        /\ Len(lidar_data) < batch_size
        /\ SumLen(image_data) < batch_size

\* C6: when the batch-size test fires with no point cloud buffered and some
\* image buffered, no frame is produced and the buffered images are
\* discarded.  The code leaves them in the buffer, so this fails.
C6_AuxDroppedWhenReferenceEmpty ==
    [][(/\ HandledStep
        /\ Len(BufferedLidar) = 0
        /\ AnyImages(BufferedImages)
        /\ FlushTrigger(BufferedLidar, BufferedImages, batch_size))
       => (frames' = frames /\ SumLen(image_data') = 0)]_vars

\* C7: no message is handed to process_synchronized_batch in two batches;
\* a call gets the whole content of the buffers, which the loop then leaves
\* empty; without a call every buffered message stays buffered.
C7_OneBatchPerMessage ==
    [][/\ \A i, j \in 1..Len(calls') :
            i # j => BatchMessages(calls'[i]) \cap BatchMessages(calls'[j]) = {}
       /\ HandledStep =>
            IF calls' # calls
            THEN /\ Len(calls') = Len(calls) + 1
                 /\ calls'[Len(calls')].lidar = BufferedLidar
                 /\ calls'[Len(calls')].images = BufferedImages
                 /\ Len(lidar_data') = 0
                 /\ SumLen(image_data') = 0
            ELSE /\ lidar_data' = BufferedLidar
                 /\ image_data' = BufferedImages
       /\ (pc = "read" /\ pc' = "done" /\ calls' # calls) =>
            /\ Len(calls') = Len(calls) + 1
            /\ calls'[Len(calls')].lidar = lidar_data
            /\ calls'[Len(calls')].images = image_data]_vars

\* two batches were handed over, the second one after new messages
C7_Witness ==
    /\ Len(calls) >= 2
    /\ BatchMessages(calls[1]) # {}
    /\ BatchMessages(calls[2]) # {}

\* C8: a topic with no image in a batch has no entry in any frame of the
\* batch, and every buffered point cloud gets a point cloud file, also when
\* no image is buffered at all.
C8_EmptyAuxStream ==
    /\ \A c \in 1..Len(calls) : \A f \in 1..Len(calls[c].batch) :
         /\ \A t \in 1..Len(calls[c].images) :
              Len(calls[c].images[t].v) = 0 =>
                 calls[c].images[t].k \notin DictKeys(calls[c].batch[f].images)
         /\ \A e \in 1..Len(calls[c].batch[f].images) :
              calls[c].batch[f].images[e].v # None
    /\ \A c \in 1..Len(calls) : \A p \in DictValues(calls[c].lidar) :
         \E w \in 1..Len(pcd_writes) : pcd_writes[w].points = p
    /\ pc = "done" =>
         \A p \in DictValues(lidar_data) :
            \E w \in 1..Len(pcd_writes) : pcd_writes[w].points = p

\* a batch with a topic that has no image produced a frame, and the log
\* ended with point clouds only, which were written
C8_Witness ==
    /\ pc = "done"
    /\ \E c \in 1..Len(calls) :
         /\ Len(calls[c].batch) >= 1
         /\ \E t \in 1..Len(calls[c].images) : Len(calls[c].images[t].v) = 0
    /\ ~AnyImages(image_data)
    /\ Len(lidar_data) >= 1
    /\ Len(pcd_writes) > Len(frames)

(***************************************************************************)
(* Claims about process_synchronized_batch (SyncSpec)                      *)
(***************************************************************************)
\* the timestamp of S nearest to t, the smaller of two equally near ones
Nearest(t, S) ==
    CHOOSE s \in S : \A u \in S :
        Abs(s - t) < Abs(u - t) \/ (Abs(s - t) = Abs(u - t) /\ s <= u)

\* the frame's entry for topic is the image buffered at timestamp ts
PairedWith(frame, topic, ts) ==
    /\ topic \in DictKeys(frame.images)
    /\ DictGet(frame.images, topic) = DictGet(DictGet(image_data, topic), ts)

\* C3: the image a frame holds for a topic is the one whose timestamp is
\* nearest to the frame's point cloud timestamp, the smaller timestamp of
\* two equally near ones.  R = [100, 200, 300] with A = [90, 250] pairs the
\* frames with 90, 250 and 250.
C3_NearestTimestamp ==
    pc = "synced" =>
      /\ \A f \in 1..Len(frames) :
           /\ \A e \in 1..Len(frames[f].images) :
                LET topic == frames[f].images[e].k
                    buffered == DictGet(image_data, topic)
                IN /\ buffered # <<>>
                   /\ frames[f].images[e].v =
                        DictGet(buffered, Nearest(frames[f].ts, DictKeys(buffered)))
           /\ \A e1, e2 \in 1..Len(frames[f].images) :
                e1 # e2 => frames[f].images[e1].k # frames[f].images[e2].k
      /\ DictKeys(lidar_data) = {100, 200, 300} =>
           \A t \in 1..Len(image_data) :
              DictKeys(image_data[t].v) = {90, 250} =>
                 /\ PairedWith(frames[1], image_data[t].k, 90)
                 /\ PairedWith(frames[2], image_data[t].k, 250)
                 /\ PairedWith(frames[3], image_data[t].k, 250)

\* a frame has an entry for a topic with two equally near images
C3_Witness ==
    /\ pc = "synced"
    /\ \E f \in 1..Len(frames) : \E e \in 1..Len(frames[f].images) :
         LET keys == DictKeys(DictGet(image_data, frames[f].images[e].k))
         IN \E s1, s2 \in keys :
              /\ s1 < s2
              /\ Abs(s1 - frames[f].ts) = Abs(s2 - frames[f].ts)
              /\ \A u \in keys : Abs(s1 - frames[f].ts) <= Abs(u - frames[f].ts)

\* C4: one frame per point cloud timestamp of the batch, in ascending
\* timestamp order, the i-th smallest with index start_index + i, and its
\* point cloud written under that index.
C4_OneFramePerReference ==
    pc = "synced" =>
      /\ Len(frames) = Cardinality(DictKeys(lidar_data))
      /\ {frames[i].ts : i \in 1..Len(frames)} = DictKeys(lidar_data)
      /\ \A i, j \in 1..Len(frames) : i < j => frames[i].ts < frames[j].ts
      /\ \A i \in 1..Len(frames) : frames[i].index = batch_index + (i - 1)
      /\ Len(pcd_writes) = Len(frames)
      /\ \A i \in 1..Len(frames) :
           pcd_writes[i] = [index |-> frames[i].index,
                            points |-> DictGet(lidar_data, frames[i].ts)]

\* a batch buffered in descending order, synchronized from a start index
\* other than 0
C4_Witness ==
    /\ pc = "synced"
    /\ Len(frames) >= 2
    /\ batch_index >= 1
    /\ lidar_data[1].k > lidar_data[2].k

(***************************************************************************)
(* Claims about extract_pointcloud2_data (DecodeSpec)                      *)
(***************************************************************************)
\* the 4 bytes at offset a
Word(a) == <<a, a + 1, a + 2, a + 3>>

\* every coordinate of a point record lies inside the record
LayoutFits(m) ==
    /\ XOffset(m) + 4 <= m.point_step
    /\ YOffset(m) + 4 <= m.point_step
    /\ ZOffset(m) + 4 <= m.point_step

HasBuffer(m) == m.data_len # None /\ m.point_step >= 1

\* C9 as stated: a buffer of k*pointStep + r bytes decodes to k points for
\* every field layout.  A layout whose coordinates reach beyond the record
\* makes the code return fewer points or raise, so this fails.
C9_ExactlyKPoints ==
    (pc = "decoded" /\ HasBuffer(d_msg)) =>
        /\ ~d_out.raised
        /\ Len(d_out.points) = 3 * (d_msg.data_len \div d_msg.point_step)

\* C9 amended: a buffer of k*pointStep + r bytes decodes to k points, read
\* at i*pointStep + offset, for every field layout whose x, y and z lie
\* inside the record; 11 bytes with pointStep 12 decode to no point.
C9_ExactlyKPointsWhenLayoutFits ==
    pc = "decoded" =>
      /\ (HasBuffer(d_msg) /\ LayoutFits(d_msg)) =>
           LET k == d_msg.data_len \div d_msg.point_step
           IN /\ ~d_out.raised
              /\ Len(d_out.points) = 3 * k
              /\ \A i \in 0..(k - 1) :
                   /\ d_out.points[3 * i + 1] = Word(i * d_msg.point_step + XOffset(d_msg))
                   /\ d_out.points[3 * i + 2] = Word(i * d_msg.point_step + YOffset(d_msg))
                   /\ d_out.points[3 * i + 3] = Word(i * d_msg.point_step + ZOffset(d_msg))
      /\ (d_msg.data_len = 11 /\ d_msg.point_step = 12) =>
           (~d_out.raised /\ d_out.points = <<>>)

\* two whole records and a partial one were decoded
C9_Witness ==
    /\ pc = "decoded"
    /\ HasBuffer(d_msg)
    /\ LayoutFits(d_msg)
    /\ d_msg.data_len \div d_msg.point_step >= 2
    /\ d_msg.data_len % d_msg.point_step > 0
    /\ Len(d_out.points) >= 6

\* the read of a coordinate of point i ends past the buffer
ReadPastEnd(m, i) ==
    \/ i * m.point_step + XOffset(m) + 4 > m.data_len
    \/ i * m.point_step + YOffset(m) + 4 > m.data_len
    \/ i * m.point_step + ZOffset(m) + 4 > m.data_len

\* C10: when the read of x, y or z of a point would end past the buffer the
\* decoder returns the points decoded before it and does not raise.  The
\* code guards the read of x only, so this fails.
C10_NoRaiseOnTruncatedBuffer ==
    (pc = "decoded" /\ HasBuffer(d_msg)) =>
        LET k == d_msg.data_len \div d_msg.point_step
            whole == {i \in 0..k : \A j \in 0..(i - 1) : ~ReadPastEnd(d_msg, j)}
            stop == CHOOSE i \in whole :
                       (i = k \/ ReadPastEnd(d_msg, i)) /\ \A j \in whole : j <= i
        IN /\ ~d_out.raised
           /\ Len(d_out.points) = 3 * stop

(***************************************************************************)
(* Claims about failing messages and the scene manifest (Spec)             *)
(***************************************************************************)
\* the steps reading a message that fails: deserialization or decoding
\* raises, or save_image_to_memory gives up and returns None
FailedStep ==
    pc = "read" /\ nread' = nread + 1 /\ msg'.kind \in {"raised", "image_none"}

\* C13: a message that fails to deserialize or decode never aborts the log:
\* it leaves the buffers, the frame index and the files written as they
\* were, and the loop goes on reading.
C13_FailedMessageSkipped ==
    [][FailedStep =>
         /\ pc' = "read"
         /\ lidar_data' = lidar_data
         /\ image_data' = image_data
         /\ batch_index' = batch_index
         /\ calls' = calls
         /\ frames' = frames
         /\ pcd_writes' = pcd_writes
         /\ jpg_writes' = jpg_writes
         /\ desc' = desc]_vars

\* some message raised, and a point cloud read after it is buffered or was
\* handed to process_synchronized_batch
C13_Witness ==
    /\ nread > processed_messages
    /\ msg.kind = "lidar"
    /\ \/ nread \in DictValues(lidar_data)
       \/ (Len(calls) > 0 /\ nread \in DictValues(calls[Len(calls)].lidar))

\* C14: synchronized_frames of desc.json is the number of frames produced
\* for the log over all calls of process_synchronized_batch, the call after
\* the last message included.  The code writes batch_index, which the last
\* call does not advance and which a flush advances by the larger buffer
\* count, so this fails.
C14_ManifestFrameCount ==
    pc = "done" => desc.synchronized_frames = Len(frames)

\* C15: lidar_count of desc.json counts the point cloud messages of the log
\* and no other message: the count starts at 0, a step reading a point cloud
\* adds one, a step reading an image or a message of another type adds
\* nothing (a message that raised may be of either kind), and the end of the
\* log writes the count.  The code writes processed_messages, which counts
\* every message handled, so this fails.
C15_ManifestLidarCount ==
    [][/\ (HandledStep /\ msg'.kind \in {"lidar", "lidar_empty"})
            => processed_messages' = processed_messages + 1
       /\ (HandledStep /\ msg'.kind \in {"image", "image_none", "other"})
            => processed_messages' = processed_messages
       /\ (pc = "read" /\ pc' = "done")
            => desc'.lidar_count = processed_messages]_vars

\* the buffer of msg's stream the stored message ends up in: the batch handed
\* to process_synchronized_batch when the step flushed, else the buffer
StepLidar == IF Len(calls') > Len(calls) THEN calls'[Len(calls')].lidar
             ELSE lidar_data'

StepImages == IF Len(calls') > Len(calls) THEN calls'[Len(calls')].images
              ELSE image_data'

\* d holds each key once
UniqueKeys(d) == \A i, j \in 1..Len(d) : d[i].k = d[j].k => i = j

\* new is old with key set to the payload: every other key keeps its
\* payload, and the count grows only when the key is new
Replaced(old, new, key, payload) ==
    /\ UniqueKeys(new)
    /\ DictKeys(new) = DictKeys(old) \cup {key}
    /\ DictGet(new, key) = payload
    /\ \A k \in DictKeys(old) \ {key} : DictGet(new, k) = DictGet(old, k)
    /\ Len(new) = Len(old) + (IF key \in DictKeys(old) THEN 0 ELSE 1)

TopicBuffer(images, topic) ==
    IF topic \in DictKeys(images) THEN DictGet(images, topic) ELSE <<>>

\* C16: storing a message whose (stream, timestamp) is already buffered
\* replaces the earlier payload: after the store the stream holds the
\* timestamp once, with the payload of this message, every other buffered
\* payload is kept and the buffered count of the stream does not grow (it
\* grows by one for a new timestamp).
C16_LastPayloadWins ==
    [][/\ (HandledStep /\ msg'.kind = "lidar")
            => /\ Replaced(lidar_data, StepLidar, msg'.ts, nread')
               /\ StepImages = image_data
       /\ (HandledStep /\ msg'.kind = "image")
            => /\ StepLidar = lidar_data
               /\ DictKeys(StepImages) = DictKeys(image_data) \cup {msg'.topic}
               /\ \A t \in DictKeys(StepImages) :
                     IF t = msg'.topic
                     THEN Replaced(TopicBuffer(image_data, t),
                                   TopicBuffer(StepImages, t), msg'.ts, nread')
                     ELSE TopicBuffer(StepImages, t) = TopicBuffer(image_data, t)]_vars

\* a buffer whose first entry is younger than its second: the first key was
\* stored, then the second, then the first again
C16_Witness ==
    \/ (Len(lidar_data) = 2 /\ lidar_data[1].v > lidar_data[2].v)
    \/ \E i \in 1..Len(image_data) :
          Len(image_data[i].v) = 2 /\ image_data[i].v[1].v > image_data[i].v[2].v

\* the message counters process_bag_files keeps while it reads a log
Counters == {processed_messages, batch_index}

\* the messages read that were skipped by "except Exception: continue"
Skipped == nread - processed_messages

\* C18 as stated: at the end of a log the number of skipped messages is held
\* by the pipeline state.  The code keeps no such counter, so this fails.
C18_SkippedCounted ==
    pc = "done" =>
        Skipped \in Counters \cup {desc.lidar_count, desc.synchronized_frames}

\* C18: only the handled messages are counted: a message handled without an
\* exception adds one to processed_messages, a message that raised adds
\* nothing and changes no counter, and the manifest written at the end of
\* the log has no field beside lidar_count, camera_topics and
\* synchronized_frames.
C18_OnlyHandledCounted ==
    [][/\ HandledStep => processed_messages' = processed_messages + 1
       /\ (pc = "read" /\ nread' = nread + 1 /\ msg'.kind = "raised")
            => /\ processed_messages' = processed_messages
               /\ batch_index' = batch_index
       /\ (pc = "read" /\ pc' = "done")
            => DOMAIN desc' = {"written", "lidar_count", "camera_topics",
                               "synchronized_frames"}]_vars

\* a log read to its end with a message skipped and a message handled
C18_Witness ==
    pc = "done" /\ msg.kind = "raised" /\ Skipped = 2 /\ processed_messages = 2

(***************************************************************************)
(* ImageSpec: process_bag_files reading Image messages, each decoded by    *)
(* save_image_to_memory.  A message is its width, height, encoding and the *)
(* length of its data (None when the message has no data).                 *)
(***************************************************************************)
MaxImages == 2

Widths == {-1, 0, 2}
Heights == {0, 1}
DataLens == {None} \cup 0..9
Encodings == {"rgb8", "bgr8", "rgba8", "bgra8", "mono8", "mono16",
              "bayer_rggb8", "yuv422"}

\* save_image_to_memory returning None
NoneImage == [mode |-> "None", width |-> 0, height |-> 0]

\* an encoding outside the list is taken for RGB
ImageModeUnknownAsRGB(encoding) ==
    CASE encoding \in {"rgb8", "bgr8"} -> "RGB"
      [] encoding \in {"rgba8", "bgra8"} -> "RGBA"
      [] encoding = "mono8" -> "L"
      [] encoding = "mono16" -> "I;16"
      [] OTHER -> "RGB"

\* the mode save_image_to_memory passes to PILImage.frombuffer
ImageMode(encoding) ==
    CASE encoding \in {"rgb8", "bgr8"} -> "RGB"
      [] encoding \in {"rgba8", "bgra8"} -> "RGBA"
      [] encoding = "mono8" -> "L"
      [] encoding = "mono16" -> "I;16"
      [] OTHER -> "L"

\* bytes of one pixel in the raw data of a mode
BytesPerPixel(mode) ==
    CASE mode = "RGB" -> 3
      [] mode = "RGBA" -> 4
      [] mode = "I;16" -> 2
      [] OTHER -> 1

\* PILImage.frombuffer never raises
FromBufferAccepts(mode, width, height, data_len) == FALSE

\* PILImage.frombuffer raises ValueError when the data is shorter than the
\* image
FromBufferRaises(mode, width, height, data_len) ==
    data_len < width * height * BytesPerPixel(mode)

\* save_image_to_memory without the test of width, height and data
save_image_unchecked(m) ==
    IF m.data_len # None
       /\ FromBufferRaises(ImageMode(m.encoding), m.width, m.height, m.data_len)
    THEN NoneImage
    ELSE [mode |-> ImageMode(m.encoding), width |-> m.width, height |-> m.height]

\* save_image_to_memory: the image, or NoneImage; every exception is caught
\* inside
save_image_to_memory(m) ==
    IF m.width <= 0 \/ m.height <= 0 \/ m.data_len = None THEN NoneImage
    ELSE IF m.data_len = 0 THEN NoneImage
    ELSE IF FromBufferRaises(ImageMode(m.encoding), m.width, m.height, m.data_len)
    THEN NoneImage
    ELSE [mode |-> ImageMode(m.encoding), width |-> m.width, height |-> m.height]

ImageMessages ==
    [ran : {TRUE}, topic : {"cam_a"}, ts : {0}, width : Widths,
     height : Heights, encoding : Encodings, data_len : DataLens]

ImageInit ==
    /\ pc = "image"
    /\ batch_size \in 1..MaxBatch
    /\ lidar_data = <<>>
    /\ image_data = <<>>
    /\ batch_index = 0
    /\ processed_messages = 0
    /\ nread = 0
    /\ msg = NoMsg
    /\ calls = <<>>
    /\ frames = <<>>
    /\ pcd_writes = <<>>
    /\ jpg_writes = <<>>
    /\ desc = NoDesc
    /\ d_msg = NoDecode
    /\ d_out = NoDecode
    /\ run = NoRun

\* the loop body for an Image message m: "if image:" stores it
HandleImage(m) ==
    /\ pc = "image"
    /\ nread < MaxImages
    /\ nread' = nread + 1
    /\ d_msg' = m
    /\ LET image == save_image_to_memory(m)
       IN /\ d_out' = [ran |-> TRUE, raised |-> FALSE, image |-> image]
          /\ IF image # NoneImage
             THEN /\ msg' = [kind |-> "image", topic |-> m.topic, ts |-> m.ts]
                  /\ AfterMessage(lidar_data,
                                  ImageInsert(image_data, m.topic, m.ts, nread + 1))
             ELSE /\ msg' = [kind |-> "image_none", topic |-> m.topic, ts |-> None]
                  /\ AfterMessage(lidar_data, image_data)
    /\ UNCHANGED <<pc, batch_size, desc, run>>

ImageNext == \E m \in ImageMessages : HandleImage(m)

ImageSpec == ImageInit /\ [][ImageNext]_vars

(***************************************************************************)
(* Claims about Image messages (ImageSpec)                                 *)
(***************************************************************************)
\* m has valid dimensions and some data
ValidImage(m) ==
    m.width > 0 /\ m.height > 0 /\ m.data_len # None /\ m.data_len > 0

\* m is valid but its data is shorter than width*height*bytesPerPixel
ShortImage(m) ==
    /\ ValidImage(m)
    /\ m.data_len < m.width * m.height * BytesPerPixel(ImageMode(m.encoding))

\* the last message read is in the buffer of its topic
LastBuffered == nread \in DictValues(TopicBuffer(image_data, d_msg.topic))

\* something was written for the last message read
LastWritten == \E i \in 1..Len(jpg_writes) : jpg_writes[i].image = nread

\* C11 as stated: every Image message with valid dimensions and non-empty
\* data reaches the buffer or the output.  A message whose data is too short
\* is dropped, so this fails.
C11_ImageBufferedOrWritten ==
    (d_out.ran /\ ValidImage(d_msg)) => LastBuffered \/ LastWritten

\* C11: an Image message that fails to decode is dropped without an
\* exception: save_image_to_memory returns None, the message is neither
\* buffered nor written and is counted as handled; an Image message with
\* valid dimensions and enough data is buffered.
C11_UndecodableImageDropped ==
    /\ (d_out.ran /\ ShortImage(d_msg))
         => /\ d_out.image = NoneImage
            /\ ~d_out.raised
            /\ msg.kind = "image_none"
            /\ ~LastBuffered
            /\ ~LastWritten
            /\ processed_messages = nread
    /\ (d_out.ran /\ ValidImage(d_msg) /\ ~ShortImage(d_msg))
         => /\ d_out.image = [mode |-> ImageMode(d_msg.encoding),
                              width |-> d_msg.width, height |-> d_msg.height]
            /\ LastBuffered

\* a 2x1 rgb8 image with 5 bytes of data was read after a buffered image
C11_Witness ==
    /\ d_out.ran
    /\ ShortImage(d_msg)
    /\ d_msg.encoding = "rgb8"
    /\ d_msg.data_len = 5
    /\ nread = 2
    /\ DictValues(TopicBuffer(image_data, "cam_a")) = {1}

\* m fails the parameter test of save_image_to_memory
SoftFailure(m) ==
    m.width <= 0 \/ m.height <= 0 \/ m.data_len = None \/ m.data_len = 0

\* C17: an Image message with width <= 0, height <= 0 or absent or empty
\* data is a soft failure: save_image_to_memory returns None without
\* raising, no buffer changes, the loop goes on, and a decodable message
\* read next is buffered.
C17_SoftFailure ==
    [][/\ (pc = "image" /\ nread' = nread + 1 /\ SoftFailure(d_msg'))
            => /\ d_out'.image = NoneImage
               /\ ~d_out'.raised
               /\ image_data' = image_data
               /\ lidar_data' = lidar_data
               /\ jpg_writes' = jpg_writes
               /\ processed_messages' = processed_messages + 1
               /\ pc' = "image"
       /\ (pc = "image" /\ nread' = nread + 1 /\ d_out.ran /\ SoftFailure(d_msg)
             /\ ValidImage(d_msg') /\ ~ShortImage(d_msg'))
            => nread' \in DictValues(TopicBuffer(image_data', d_msg'.topic))]_vars

\* an image with no data was read after a buffered image
C17_Witness ==
    /\ d_out.ran
    /\ d_msg.width > 0
    /\ d_msg.height > 0
    /\ d_msg.data_len = None
    /\ nread = 2
    /\ DictValues(TopicBuffer(image_data, "cam_a")) = {1}

(***************************************************************************)
(* OrderSpec: process_synchronized_batch called twice on the same point    *)
(* clouds and images, buffered in timestamp order for the first call and   *)
(* in any order of insertion for the second.                               *)
(***************************************************************************)
OrderTimestamps == {0, 100, 200, 300}

\* the dicts holding the entries of d, inserted in any order
Reorderings(d) ==
    {p \in [1..Len(d) -> {d[i] : i \in 1..Len(d)}] :
        \A i, j \in 1..Len(d) : p[i] = p[j] => i = j}

\* image_data with its topics, and the timestamps of every topic, inserted
\* in any order
ImageReorderings(images) ==
    LET entries == UNION {{[k |-> images[i].k, v |-> r] :
                             r \in Reorderings(images[i].v)} :
                          i \in 1..Len(images)}
    IN {p \in [1..Len(images) -> entries] :
          \A i, j \in 1..Len(images) : p[i].k = p[j].k => i = j}

OrderLidarBatches ==
    {DictOf(S, 1) : S \in {R \in SUBSET OrderTimestamps : Cardinality(R) <= MaxRef}}

OrderImageBatches ==
    {[i \in 1..Len(order) |->
        [k |-> order[i],
         v |-> DictOf(content[order[i]], 1 + i * Cardinality(OrderTimestamps))]] :
     order \in {<<>>, <<"cam_a">>, <<"cam_a", "cam_b">>},
     content \in {c \in [Topics -> SUBSET OrderTimestamps] :
                    Cardinality(c["cam_a"]) + Cardinality(c["cam_b"]) <= MaxAux}}

OrderInit ==
    /\ pc = "order"
    /\ batch_size = 1
    /\ lidar_data \in OrderLidarBatches
    /\ image_data \in OrderImageBatches
    /\ HasSyncData(lidar_data, image_data)
    /\ batch_index \in StartIndices
    /\ processed_messages = 0
    /\ nread = 0
    /\ msg = NoMsg
    /\ calls = <<>>
    /\ frames = <<>>
    /\ pcd_writes = <<>>
    /\ jpg_writes = <<>>
    /\ desc = NoDesc
    /\ d_msg \in [ran : {TRUE}, lidar : Reorderings(lidar_data),
                  images : ImageReorderings(image_data)]
    /\ d_out = NoDecode
    /\ run = NoRun

\* the first call on (lidar_data, image_data), the second on the same
\* entries in the order of d_msg
OrderCall ==
    /\ pc = "order"
    /\ pc' = "ordered"
    /\ LET first == SynchronizedBatch(lidar_data, image_data, batch_index)
           second == SynchronizedBatch(d_msg.lidar, d_msg.images, batch_index)
       IN /\ calls' = <<[lidar |-> lidar_data, images |-> image_data,
                         start_index |-> batch_index, batch |-> first],
                        [lidar |-> d_msg.lidar, images |-> d_msg.images,
                         start_index |-> batch_index, batch |-> second]>>
          /\ frames' = first
          /\ pcd_writes' = BatchPcdWrites(first, lidar_data)
          /\ jpg_writes' = BatchJpgWrites(first)
          /\ d_out' = [ran |-> TRUE, raised |-> FALSE, frames |-> second]
    /\ UNCHANGED <<batch_size, lidar_data, image_data, batch_index,
                   processed_messages, nread, msg, desc, d_msg, run>>

OrderNext == OrderCall

OrderSpec == OrderInit /\ [][OrderNext]_vars

(***************************************************************************)
(* Claims about the order of insertion (OrderSpec)                         *)
(***************************************************************************)
\* the timestamp under which an image is buffered
TimestampOf(images, topic, image) ==
    LET d == DictGet(images, topic)
    IN CHOOSE t \in DictKeys(d) : DictGet(d, t) = image

\* frame index -> (point cloud timestamp, image timestamp chosen per topic)
FrameMap(batch, images) ==
    {[index |-> batch[i].index,
      ts |-> batch[i].ts,
      chosen |-> {<<batch[i].images[j].k,
                    TimestampOf(images, batch[i].images[j].k, batch[i].images[j].v)>> :
                  j \in 1..Len(batch[i].images)}] : i \in 1..Len(batch)}

\* C19: two calls of process_synchronized_batch on the same point cloud
\* timestamps, the same image timestamps per topic and the same start_index
\* give the same mapping from frame index to (point cloud timestamp, image
\* timestamp chosen per topic), whatever the order in which the point
\* clouds, the topics and the images of a topic were inserted.
C19_InsertionOrderIrrelevant ==
    pc = "ordered" =>
        FrameMap(d_out.frames, d_msg.images) = FrameMap(frames, image_data)

\* three point clouds inserted latest first for the second call, and a
\* topic whose two images, inserted latest first, are at the same distance
\* from the middle point cloud
C19_Witness ==
    /\ pc = "ordered"
    /\ Len(d_msg.lidar) = 3
    /\ d_msg.lidar[1].k > d_msg.lidar[2].k
    /\ d_msg.lidar[2].k > d_msg.lidar[3].k
    /\ Len(frames) = 3
    /\ \E i \in 1..Len(d_msg.images) :
          /\ Len(d_msg.images[i].v) = 2
          /\ d_msg.images[i].v[1].k > d_msg.images[i].v[2].k
          /\ Abs(d_msg.images[i].v[1].k - d_msg.lidar[2].k)
               = Abs(d_msg.images[i].v[2].k - d_msg.lidar[2].k)

(***************************************************************************)
(* RunSpec: process_bag_files over the bag files of the input directory.   *)
(* The message loop of one file is one step, which ends or lets an error   *)
(* escape.  A reader is "new" once constructed, "open" once open()         *)
(* returned, "closed" once close() returned.  Reader 2*f - 1 is the        *)
(* Bag1Reader of file f, reader 2*f its Bag2Reader.                        *)
(***************************************************************************)
MaxLogs == 3

\* the name "reader" is not bound yet
Unbound == 0

Reader1(f) == 2 * f - 1

Reader2(f) == 2 * f

\* reader = BagNReader(bag_path); reader.open(): the readers and the name
\* "reader" afterwards.  A constructor that raises leaves the name as it
\* was; an open() that raises leaves the reader not open.
OpenAttempt(r, id, ctor_ok, open_ok) ==
    IF ~ctor_ok THEN r
    ELSE [r EXCEPT !.reader = id,
                   !.readers[id] = IF open_ok THEN "open" ELSE "new"]

\* close() called on a reader that is not open: whether it returns or
\* raises is up to the reader (the readers of rosbags assert that the bag
\* is open)
CloseOutcomes(state) ==
    IF state = "open" THEN {"returns"} ELSE {"returns", "raises"}

RunInit ==
    /\ pc = "files"
    /\ run \in [files : 1..MaxLogs, file : {0}, reader : {Unbound},
                readers : {[id \in 1..(2 * MaxLogs) |-> "none"]},
                closes : {<<>>}, reported : {{}}, finished : {{}}]
    /\ batch_size = 1
    /\ lidar_data = <<>>
    /\ image_data = <<>>
    /\ batch_index = 0
    /\ processed_messages = 0
    /\ nread = 0
    /\ msg = NoMsg
    /\ calls = <<>>
    /\ frames = <<>>
    /\ pcd_writes = <<>>
    /\ jpg_writes = <<>>
    /\ desc = NoDesc
    /\ d_msg = NoDecode
    /\ d_out = NoDecode

\* for bag_file in bag_files: the next file, with fresh buffers
NextFile ==
    /\ pc = "files"
    /\ run.file < run.files
    /\ pc' = "open1"
    /\ run' = [run EXCEPT !.file = run.file + 1]
    /\ UNCHANGED <<pipeline_vars, decode_vars>>

\* the loop is over: process_bag_files returns
ReturnFromRun ==
    /\ pc = "files"
    /\ run.file = run.files
    /\ pc' = "returned"
    /\ UNCHANGED <<pipeline_vars, decode_vars, run>>

\* try: reader = Bag1Reader(bag_path); reader.open()
\* except: (any exception) go on with the ROS2 reader
OpenRos1(ctor_ok, open_ok) ==
    /\ pc = "open1"
    /\ run' = OpenAttempt(run, Reader1(run.file), ctor_ok, open_ok)
    /\ pc' = IF ctor_ok /\ open_ok THEN "messages" ELSE "open2"
    /\ UNCHANGED <<pipeline_vars, decode_vars>>

\* reader = Bag2Reader(bag_path); reader.open(): an exception goes to the
\* handler of the file
OpenRos2(ctor_ok, open_ok) ==
    /\ pc = "open2"
    /\ run' = OpenAttempt(run, Reader2(run.file), ctor_ok, open_ok)
    /\ pc' = IF ctor_ok /\ open_ok THEN "messages" ELSE "except"
    /\ UNCHANGED <<pipeline_vars, decode_vars>>

\* the message loop, the remaining data and desc.json, then reader.close();
\* or an error escapes from them
ProcessFile(ok) ==
    /\ pc = "messages"
    /\ IF ok
       THEN /\ pc' = "files"
            /\ run' = [run EXCEPT !.readers[run.reader] = "closed",
                                  !.closes = Append(@, [file |-> run.file,
                                                        reader |-> run.reader]),
                                  !.finished = @ \cup {run.file}]
       ELSE /\ pc' = "except"
            /\ UNCHANGED run
    /\ UNCHANGED <<pipeline_vars, decode_vars>>

\* except Exception: report; if 'reader' in locals(): reader.close(); continue
HandleError(outcome) ==
    /\ pc = "except"
    /\ IF run.reader = Unbound
       THEN /\ outcome = "returns"
            /\ pc' = "files"
            /\ run' = [run EXCEPT !.reported = @ \cup {run.file}]
       ELSE /\ outcome \in CloseOutcomes(run.readers[run.reader])
            /\ pc' = IF outcome = "returns" THEN "files" ELSE "raised"
            /\ run' = [run EXCEPT
                         !.reported = @ \cup {run.file},
                         !.closes = Append(@, [file |-> run.file,
                                               reader |-> run.reader]),
                         !.readers[run.reader] =
                             IF outcome = "returns" THEN "closed" ELSE @]
    /\ UNCHANGED <<pipeline_vars, decode_vars>>

RunNext ==
    \/ NextFile
    \/ ReturnFromRun
    \/ \E ctor_ok, open_ok \in BOOLEAN : OpenRos1(ctor_ok, open_ok)
    \/ \E ctor_ok, open_ok \in BOOLEAN : OpenRos2(ctor_ok, open_ok)
    \/ \E ok \in BOOLEAN : ProcessFile(ok)
    \/ \E outcome \in {"returns", "raises"} : HandleError(outcome)

RunSpec == RunInit /\ [][RunNext]_vars

(***************************************************************************)
(* Claims about the bag files of a run (RunSpec)                           *)
(***************************************************************************)
\* C12: a bag file that cannot be opened by either reader, or whose
\* processing lets an error escape, is reported and never ends the run:
\* no exception leaves process_bag_files, and when it returns every file
\* was processed to its end or reported.  The handler of a failed file
\* closes whatever "reader" names, open or not, and that close can raise
\* out of process_bag_files, so this fails.
C12_FailedFileContained ==
    /\ pc # "raised"
    /\ pc = "returned" => run.finished \cup run.reported = 1..run.files

(***************************************************************************)
(* PcdSpec: write_pcd_file (bag_processor.py) followed by read_pcd_file    *)
(* (utils/rotate_pcd.py) on the file written.                              *)
(*                                                                         *)
(* A float is [kind, e7]: "finite" with its value in units of 1e-7, or     *)
(* "nan", "inf", "-inf".  A file is a sequence of lines, a line the        *)
(* sequence of its tokens (what str.split() gives), a token a word, an     *)
(* integer or a fixed-point number with 6 decimals.                        *)
(***************************************************************************)
MaxPoints == 2

Finite(e7) == [kind |-> "finite", e7 |-> e7]

NaN == [kind |-> "nan", e7 |-> 0]

Infinity == [kind |-> "inf", e7 |-> 0]

MinusInfinity == [kind |-> "-inf", e7 |-> 0]

\* the points written: 1.5, -2.25, 0.0078125 and 0.0234375 (halfway between
\* two 6-decimal numbers), 1.2345678, -0.0000004, values a PointCloud2
\* buffer can hold
PointChoices ==
    {<<Finite(0), Finite(0), Finite(0)>>,
     <<Finite(15000000), Finite(-22500000), Finite(78125)>>,
     <<Finite(12345678), Finite(-4), Finite(234375)>>,
     <<Finite(-78125), Finite(-12345678), Finite(9999996)>>,
     <<NaN, NaN, NaN>>,
     <<Infinity, MinusInfinity, Finite(10000000)>>,
     <<Finite(-9999995), Finite(6), Finite(-15)>>}

Token(t, s, neg, int, frac) ==
    [t |-> t, s |-> s, neg |-> neg, int |-> int, frac |-> frac]

WordToken(s) == Token("word", s, FALSE, 0, 0)

IntToken(n) == Token("int", "", FALSE, n, 0)

\* a line of words
WordLine(ws) == [i \in 1..Len(ws) |-> WordToken(ws[i])]

\* |e7| rounded to units of 1e-6, halves to the even neighbour
RoundMicro(e7) ==
    LET q == Abs(e7) \div 10
        r == Abs(e7) % 10
    IN IF r > 5 \/ (r = 5 /\ q % 2 = 1) THEN q + 1 ELSE q

\* fixed-point formatting that cuts the 7th decimal off
FormatTruncated(x) ==
    CASE x.kind = "nan" -> WordToken("nan")
      [] x.kind = "inf" -> WordToken("inf")
      [] x.kind = "-inf" -> WordToken("-inf")
      [] OTHER -> Token("fixed", "", x.e7 < 0,
                        (Abs(x.e7) \div 10) \div 1000000,
                        (Abs(x.e7) \div 10) % 1000000)

\* f"{x:.6f}": sign, integer part, 6 decimals
Format6(x) ==
    CASE x.kind = "nan" -> WordToken("nan")
      [] x.kind = "inf" -> WordToken("inf")
      [] x.kind = "-inf" -> WordToken("-inf")
      [] OTHER -> Token("fixed", "", x.e7 < 0,
                        RoundMicro(x.e7) \div 1000000,
                        RoundMicro(x.e7) % 1000000)

\* the lines write_pcd_file writes
write_pcd_file(points, width) ==
    LET height == Len(points) \div 3
    IN << WordLine(<<"#", ".PCD", "v0.7", "-", "Point", "Cloud", "Data",
                     "file", "format">>),
          WordLine(<<"VERSION", "0.7">>),
          WordLine(<<"FIELDS", "x", "y", "z">>),
          <<WordToken("SIZE"), IntToken(4), IntToken(4), IntToken(4)>>,
          WordLine(<<"TYPE", "F", "F", "F">>),
          <<WordToken("COUNT"), IntToken(1), IntToken(1), IntToken(1)>>,
          <<WordToken("WIDTH"), IntToken(height)>>,
          <<WordToken("HEIGHT"), IntToken(width)>>,
          <<WordToken("VIEWPOINT"), IntToken(0), IntToken(0), IntToken(0),
            IntToken(1), IntToken(0), IntToken(0), IntToken(0)>>,
          <<WordToken("POINTS"), IntToken(height)>>,
          WordLine(<<"DATA", "ascii">>) >>
       \o [i \in 1..height |->
             <<Format6(points[3 * i - 2]), Format6(points[3 * i - 1]),
               Format6(points[3 * i])>>]

HeaderKeys == {"FIELDS", "SIZE", "TYPE", "COUNT", "WIDTH", "HEIGHT", "POINTS",
               "VIEWPOINT"}

\* line.startswith('DATA ascii')
IsDataLine(line) ==
    Len(line) >= 2 /\ line[1] = WordToken("DATA") /\ line[2] = WordToken("ascii")

\* the index of the first line after "DATA ascii", 0 when there is none
DataStart(lines) ==
    IF \E i \in 1..Len(lines) : IsDataLine(lines[i])
    THEN CHOOSE i \in 1..Len(lines) :
            /\ IsDataLine(lines[i])
            /\ \A j \in 1..(i - 1) : ~IsDataLine(lines[j])
    ELSE 0

RECURSIVE HeaderInfo(_, _, _)
\* header_info after the header lines from i on: key -> the rest of the line
HeaderInfo(lines, i, info) ==
    IF i > Len(lines) \/ IsDataLine(lines[i]) THEN info
    ELSE IF Len(lines[i]) > 0 /\ lines[i][1].t = "word"
            /\ lines[i][1].s \in HeaderKeys
         THEN HeaderInfo(lines, i + 1,
                         DictSet(info, lines[i][1].s, Tail(lines[i])))
         ELSE HeaderInfo(lines, i + 1, info)

\* float(v) raises ValueError
FloatRaises(tok) == tok.t = "word" /\ tok.s \notin {"nan", "inf", "-inf"}

\* float(v)
ParseFloat(tok) ==
    CASE tok.t = "fixed" ->
            Finite((IF tok.neg THEN -1 ELSE 1) * (tok.int * 1000000 + tok.frac) * 10)
      [] tok.t = "int" -> Finite(tok.int * 10000000)
      [] tok.s = "nan" -> NaN
      [] tok.s = "inf" -> Infinity
      [] OTHER -> MinusInfinity

\* the point of one data line: the first num_fields values, or the values
\* padded with 0.0
PointOfLine(values, num_fields) ==
    [j \in 1..num_fields |->
        IF j <= Len(values) THEN ParseFloat(values[j]) ELSE Finite(0)]

RECURSIVE ReadPoints(_, _, _, _)
\* points after the data lines from i on
ReadPoints(lines, i, num_fields, points) ==
    IF i > Len(lines) THEN points
    ELSE LET values == lines[i]
         IN IF values = <<>> \/ values[1] = WordToken("#")
            THEN ReadPoints(lines, i + 1, num_fields, points)
            ELSE IF \E j \in 1..Len(values) :
                       j <= num_fields /\ FloatRaises(values[j])
                 THEN ReadPoints(lines, i + 1, num_fields, points)
                 ELSE ReadPoints(lines, i + 1, num_fields,
                                 Append(points, PointOfLine(values, num_fields)))

\* read_pcd_file: the points and header_info
read_pcd_file(lines) ==
    LET header_info == HeaderInfo(lines, 1, <<>>)
        fields == IF "FIELDS" \in DictKeys(header_info)
                  THEN DictGet(header_info, "FIELDS")
                  ELSE WordLine(<<"x", "y", "z">>)
    IN [points |-> ReadPoints(lines, DataStart(lines) + 1, Len(fields), <<>>),
        header_info |-> header_info]

RECURSIVE Flatten(_)
\* the coordinates of a sequence of points, one after the other
Flatten(ps) == IF ps = <<>> THEN <<>> ELSE Head(ps) \o Flatten(Tail(ps))

PcdInit ==
    /\ pc = "pcd"
    /\ \E n \in 0..MaxPoints : \E ps \in [1..n -> PointChoices] :
          d_msg = [ran |-> TRUE, points |-> Flatten(ps)]
    /\ d_out = NoDecode
    /\ batch_size = 1
    /\ lidar_data = <<>>
    /\ image_data = <<>>
    /\ batch_index = 0
    /\ processed_messages = 0
    /\ nread = 0
    /\ msg = NoMsg
    /\ calls = <<>>
    /\ frames = <<>>
    /\ pcd_writes = <<>>
    /\ jpg_writes = <<>>
    /\ desc = NoDesc
    /\ run = NoRun

\* write_pcd_file(filepath, points)
WritePcd ==
    /\ pc = "pcd"
    /\ pc' = "written"
    /\ d_out' = [ran |-> TRUE, raised |-> FALSE,
                 file |-> write_pcd_file(d_msg.points, 1)]
    /\ UNCHANGED <<d_msg, pipeline_vars, run>>

\* read_pcd_file(filepath)
ReadPcd ==
    /\ pc = "written"
    /\ pc' = "parsed"
    /\ d_out' = [ran |-> TRUE, raised |-> FALSE, file |-> d_out.file,
                 read |-> read_pcd_file(d_out.file)]
    /\ UNCHANGED <<d_msg, pipeline_vars, run>>

PcdNext == WritePcd \/ ReadPcd

PcdSpec == PcdInit /\ [][PcdNext]_vars

(***************************************************************************)
(* Claims about the PCD file (PcdSpec)                                     *)
(***************************************************************************)
\* read is written to 6 decimal places: at most half of 1e-6 away, nan and
\* the infinities as they were
SameTo6Decimals(written, read) ==
    /\ read.kind = written.kind
    /\ written.kind = "finite" => /\ Abs(read.e7 - written.e7) <= 5
                                  /\ read.e7 % 10 = 0

\* C20: n points written by write_pcd_file and parsed by read_pcd_file come
\* back as n points in the same order with the same coordinates to 6 decimal
\* places, and the header states WIDTH n, HEIGHT 1 and POINTS n.
C20_PcdRoundTrip ==
    pc = "parsed" =>
        LET n == Len(d_msg.points) \div 3
            read == d_out.read
        IN /\ Len(read.points) = n
           /\ \A i \in 1..n :
                 /\ Len(read.points[i]) = 3
                 /\ \A j \in 1..3 :
                       SameTo6Decimals(d_msg.points[3 * (i - 1) + j],
                                       read.points[i][j])
           /\ DictGet(read.header_info, "WIDTH") = <<IntToken(n)>>
           /\ DictGet(read.header_info, "HEIGHT") = <<IntToken(1)>>
           /\ DictGet(read.header_info, "POINTS") = <<IntToken(n)>>

\* two different points, one with a coordinate halfway between two
\* 6-decimal numbers and one with nan, written and parsed
C20_Witness ==
    /\ pc = "parsed"
    /\ Len(d_msg.points) = 6
    /\ d_msg.points[3] = Finite(78125)
    /\ d_msg.points[4] = NaN
    /\ Len(d_out.read.points) = 2
    /\ d_out.read.points[1][3] = Finite(78120)

\* bytes per pixel of an encoding tag: 3 for rgb8 and bgr8, 4 for rgba8 and
\* bgra8, 2 for mono16, 1 for mono8, bayer_* and any other tag
TagBytesPerPixel(encoding) ==
    CASE encoding \in {"rgb8", "bgr8"} -> 3
      [] encoding \in {"rgba8", "bgra8"} -> 4
      [] encoding = "mono16" -> 2
      [] OTHER -> 1

\* m has valid dimensions and exactly width*height*bytesPerPixel bytes
ExactImage(m) ==
    /\ m.width > 0
    /\ m.height > 0
    /\ m.data_len = m.width * m.height * TagBytesPerPixel(m.encoding)

\* C21: an Image message of any encoding whose data has exactly
\* width*height*bytesPerPixel bytes, width and height positive, is decoded
\* and buffered under its topic and timestamp; a bayer_* or unknown
\* encoding is decoded as 8-bit grayscale.
C21_ExactImageBuffered ==
    (d_out.ran /\ ExactImage(d_msg)) =>
        /\ d_out.image # NoneImage
        /\ d_out.image.width = d_msg.width
        /\ d_out.image.height = d_msg.height
        /\ msg = [kind |-> "image", topic |-> d_msg.topic, ts |-> d_msg.ts]
        /\ d_msg.ts \in DictKeys(TopicBuffer(image_data, d_msg.topic))
        /\ DictGet(TopicBuffer(image_data, d_msg.topic), d_msg.ts) = nread
        /\ d_msg.encoding \in {"bayer_rggb8", "yuv422"} => d_out.image.mode = "L"

\* a 2x1 image of an unknown encoding with 2 bytes, and one of mono16 with 4
C21_Witness ==
    /\ d_out.ran
    /\ ExactImage(d_msg)
    /\ \/ (d_msg.encoding = "yuv422" /\ d_msg.data_len = 2)
       \/ (d_msg.encoding = "mono16" /\ d_msg.data_len = 4)
    /\ nread = 2
    /\ DictGet(TopicBuffer(image_data, "cam_a"), 0) = 2

(***************************************************************************)
(* Further claims about extract_pointcloud2_data (DecodeSpec)              *)
(***************************************************************************)
\* C22: extract_pointcloud2_data returns no point and does not raise when
\* the data of the message is absent or empty, whatever the point step and
\* the field layout.
C22_EmptyBufferNoPoints ==
    (pc = "decoded" /\ (d_msg.data_len = None \/ d_msg.data_len = 0)) =>
        /\ ~d_out.raised
        /\ d_out.points = <<>>

\* an empty buffer with point step 0 and a field layout reaching beyond the
\* record, and a message without data
C22_Witness ==
    /\ pc = "decoded"
    /\ \/ (d_msg.data_len = 0 /\ d_msg.point_step = 0)
       \/ (d_msg.data_len = None /\ d_msg.point_step = 4
             /\ "x" \in DOMAIN d_msg.fields /\ d_msg.fields["x"] = 12)
    /\ ~d_out.raised
    /\ d_out.points = <<>>

(***************************************************************************)
(* Further claims about process_synchronized_batch (SyncSpec)              *)
(***************************************************************************)
\* C23: every frame has an entry for every topic with at least one image
\* buffered in the batch, the image at the timestamp nearest to the frame's
\* point cloud, also when that timestamp is 0.  The code tests the nearest
\* timestamp with "if closest_ts:", which is false for 0, so this fails.
C23_EntryForEveryTopic ==
    pc = "synced" =>
        \A f \in 1..Len(frames) : \A t \in 1..Len(image_data) :
            image_data[t].v # <<>> =>
                PairedWith(frames[f], image_data[t].k,
                           Nearest(frames[f].ts, DictKeys(image_data[t].v)))

\* the path an image is saved under: image_subdir/NNNNNN.jpg, NNNNNN the
\* frame index
JpgPath(write) == write.index

\* C24: a frame with entries for k topics gets k image files: no two image
\* saves of a call go to the same path.  Every topic of a frame is saved as
\* NNNNNN.jpg of the frame, so with two topics this fails.
C24_OneFilePerTopic ==
    pc = "synced" =>
        /\ \A i, j \in 1..Len(jpg_writes) :
              i # j => JpgPath(jpg_writes[i]) # JpgPath(jpg_writes[j])
        /\ \A f \in 1..Len(frames) :
              Cardinality({JpgPath(jpg_writes[i]) : i \in
                    {n \in 1..Len(jpg_writes) : jpg_writes[n].index = frames[f].index}})
                = Len(frames[f].images)

(***************************************************************************)
(* Further claims about process_bag_files (Spec)                           *)
(***************************************************************************)
\* the point clouds written so far
WrittenClouds(writes) == {writes[i].points : i \in 1..Len(writes)}

\* the step stores a point cloud under a timestamp that is buffered already
RepeatsTimestamp ==
    HandledStep /\ msg'.kind = "lidar" /\ msg'.ts \in DictKeys(lidar_data)

\* C25: with point cloud timestamps that do not repeat, every point cloud
\* message with at least one point is written to exactly one file by the
\* end of the log.  Step by step: a point cloud read is buffered or
\* written, a buffered point cloud stays buffered or is written, what is
\* written stays written, no point cloud is written twice or written while
\* it stays buffered for a later batch, no two files share an index, and
\* at the end of the log every buffered point cloud is written.
C25_EveryCloudWrittenOnce ==
    [][/\ (HandledStep /\ msg'.kind = "lidar")
            => nread' \in DictValues(lidar_data') \cup WrittenClouds(pcd_writes')
       /\ ~RepeatsTimestamp
            => DictValues(lidar_data)
                 \subseteq DictValues(lidar_data') \cup WrittenClouds(pcd_writes')
       /\ Len(pcd_writes') >= Len(pcd_writes)
       /\ SubSeq(pcd_writes', 1, Len(pcd_writes)) = pcd_writes
       /\ \A i, j \in 1..Len(pcd_writes') :
             i # j => /\ pcd_writes'[i].points # pcd_writes'[j].points
                      /\ pcd_writes'[i].index # pcd_writes'[j].index
       /\ pc' = "read"
            => DictValues(lidar_data') \cap WrittenClouds(pcd_writes') = {}
       /\ pc' = "done"
            => DictValues(lidar_data') \subseteq WrittenClouds(pcd_writes')]_vars

\* a log with a message that raised, of which three point clouds were
\* written: some by a flush, the others after the last message
C25_Witness ==
    /\ pc = "done"
    /\ nread > processed_messages
    /\ Len(calls) >= 1
    /\ Len(pcd_writes) = 3
    /\ Len(lidar_data) >= 1

(***************************************************************************)
(* Further claims about the bag files of a run (RunSpec)                   *)
(***************************************************************************)
\* the close() calls made on reader id so far
ClosesOf(id) == {i \in 1..Len(run.closes) : run.closes[i].reader = id}

\* the state of the reader a close() call is about to be made on, "" when
\* the step makes no call
ClosedInState ==
    IF Len(run'.closes) > Len(run.closes)
    THEN run.readers[run'.closes[Len(run'.closes)].reader]
    ELSE ""

\* C26: every reader that was opened is closed exactly once, and close() is
\* never called on a reader that is not open, that belongs to an earlier
\* file or that was closed before.  The handler of a failed file closes
\* whatever "reader" names, so this fails.
C26_ReadersClosedOnce ==
    [][/\ Len(run'.closes) > Len(run.closes)
            => /\ ClosedInState = "open"
               /\ run'.closes[Len(run'.closes)].reader
                    \in {Reader1(run.file), Reader2(run.file)}
       /\ pc' \in {"files", "returned"}
            => \A id \in 1..(2 * MaxLogs) :
                  /\ run'.readers[id] # "open"
                  /\ run'.readers[id] = "closed" => Cardinality(ClosesOf(id)') = 1]_vars

(***************************************************************************)
(* RotateSpec: rotate_pcd_by_negating_yz (utils/rotate_pcd.py) applied to  *)
(* a point array, then to its own result.  An array of shape (N, D) is     *)
(* [fields |-> D, rows |-> N rows of D floats].                            *)
(***************************************************************************)
FieldCounts == {1, 2, 3, 4, 5}

\* rows of x, y, z, intensity, ring
FullRows ==
    {<<Finite(15000000), Finite(-22500000), Finite(78125), Finite(100000000),
       Finite(30000000)>>,
     <<Finite(0), Finite(0), Finite(0), Finite(0), Finite(0)>>,
     <<NaN, Infinity, MinusInfinity, Finite(10000000), Finite(0)>>,
     <<Finite(-10000000), Finite(20000000), Finite(-30000000),
       Finite(-40000000), Finite(50000000)>>}

PointArrays ==
    UNION {{[fields |-> d, rows |-> [i \in 1..n |-> SubSeq(full[i], 1, d)]] :
              full \in [1..n -> FullRows]} :
           n \in 0..MaxPoints, d \in FieldCounts}

\* -x of a float
Negate(x) ==
    CASE x.kind = "finite" -> Finite(-x.e7)
      [] x.kind = "inf" -> MinusInfinity
      [] x.kind = "-inf" -> Infinity
      [] OTHER -> x

\* a[:, col] = -a[:, col], col counted from 1
NegateColumn(a, col) ==
    [a EXCEPT !.rows = [i \in 1..Len(a.rows) |->
                          [j \in 1..a.fields |->
                             IF j = col THEN Negate(a.rows[i][j]) ELSE a.rows[i][j]]]]

\* points.size
ArraySize(a) == Len(a.rows) * a.fields

\* the columns are negated in the array passed in: no copy
rotate_in_place(points) ==
    IF ArraySize(points) = 0 THEN [input |-> points, result |-> points]
    ELSE LET y_done == IF points.fields >= 2 THEN NegateColumn(points, 2)
                       ELSE points
             z_done == IF points.fields >= 3 THEN NegateColumn(y_done, 3)
                       ELSE y_done
         IN [input |-> z_done, result |-> z_done]

\* rotate_pcd_by_negating_yz: the array passed in as it is after the call,
\* and the array returned
rotate_pcd_by_negating_yz(points) ==
    IF ArraySize(points) = 0 THEN [input |-> points, result |-> points]
    ELSE LET result_points == points
             y_done == IF result_points.fields >= 2
                       THEN NegateColumn(result_points, 2) ELSE result_points
             z_done == IF y_done.fields >= 3 THEN NegateColumn(y_done, 3)
                       ELSE y_done
         IN [input |-> points, result |-> z_done]

RotateInit ==
    /\ pc = "rotate"
    /\ d_msg \in [ran : {TRUE}, points : PointArrays]
    /\ d_out = NoDecode
    /\ run = NoRun
    /\ batch_size = 1
    /\ lidar_data = <<>>
    /\ image_data = <<>>
    /\ batch_index = 0
    /\ processed_messages = 0
    /\ nread = 0
    /\ msg = NoMsg
    /\ calls = <<>>
    /\ frames = <<>>
    /\ pcd_writes = <<>>
    /\ jpg_writes = <<>>
    /\ desc = NoDesc

\* rotated = rotate_pcd_by_negating_yz(points)
Rotate ==
    /\ pc = "rotate"
    /\ pc' = "rotated"
    /\ LET r == rotate_pcd_by_negating_yz(d_msg.points)
       IN d_out' = [ran |-> TRUE, raised |-> FALSE, input |-> r.input,
                    result |-> r.result, twice |-> r.result]
    /\ UNCHANGED <<d_msg, pipeline_vars, run>>

\* rotate_pcd_by_negating_yz(rotated)
RotateAgain ==
    /\ pc = "rotated"
    /\ pc' = "rotated_twice"
    /\ LET r == rotate_pcd_by_negating_yz(d_out.result)
       IN d_out' = [d_out EXCEPT !.result = r.input, !.twice = r.result]
    /\ UNCHANGED <<d_msg, pipeline_vars, run>>

RotateNext == Rotate \/ RotateAgain

RotateSpec == RotateInit /\ [][RotateNext]_vars

(***************************************************************************)
(* Claims about rotate_pcd_by_negating_yz (RotateSpec)                     *)
(***************************************************************************)
\* r is -o
NegationOf(o, r) ==
    \/ (o.kind = "finite" /\ r.kind = "finite" /\ r.e7 + o.e7 = 0)
    \/ (o.kind = "nan" /\ r.kind = "nan")
    \/ (o.kind = "inf" /\ r.kind = "-inf")
    \/ (o.kind = "-inf" /\ r.kind = "inf")

\* C27: rotate_pcd_by_negating_yz returns an array with the rows and fields
\* of its argument in which y and z are negated and x and every field after
\* z are as they were, leaves its argument as it was, and applied to its
\* own result gives the first values back.
C27_OnlyYZNegated ==
    /\ pc = "rotated" =>
         LET a == d_msg.points
             r == d_out.result
         IN /\ r.fields = a.fields
            /\ Len(r.rows) = Len(a.rows)
            /\ \A i \in 1..Len(a.rows) :
                  /\ Len(r.rows[i]) = a.fields
                  /\ \A j \in 1..a.fields :
                        IF j \in {2, 3} THEN NegationOf(a.rows[i][j], r.rows[i][j])
                        ELSE r.rows[i][j] = a.rows[i][j]
            /\ d_out.input = a
    /\ pc = "rotated_twice" =>
         /\ d_out.twice = d_msg.points
         /\ d_out.result = rotate_pcd_by_negating_yz(d_msg.points).result

\* an array of two rows with intensity and ring, one row holding nan and the
\* infinities, rotated twice
C27_Witness ==
    /\ pc = "rotated_twice"
    /\ d_msg.points.fields = 5
    /\ Len(d_msg.points.rows) = 2
    /\ d_msg.points.rows[1][1] = NaN
    /\ d_msg.points.rows[2][2] = Finite(-22500000)
    /\ d_out.result.rows[2][2] = Finite(22500000)
    /\ d_out.twice = d_msg.points

(***************************************************************************)
(* ExtractSpec: extract_image_data (scripts/rosbag_parser.py) over the     *)
(* messages of one image topic.  d_out holds count, the image files        *)
(* written (name: the number NNNNNN of image_NNNNNN.bin, size: the bytes   *)
(* written), the entries of the metadata file and the number printed at    *)
(* the end.                                                                *)
(***************************************************************************)
MaxImageMsgs == 4

\* len(msg.data) of the image messages
ImageSizes == {0, 3}

ExtractInit ==
    /\ pc = "extract"
    /\ d_msg \in [ran : {TRUE}, is_ros1 : BOOLEAN]
    /\ d_out = [ran |-> TRUE, count |-> 0, files |-> <<>>, meta |-> <<>>,
                reported |-> None]
    /\ run = NoRun
    /\ batch_size = 1
    /\ lidar_data = <<>>
    /\ image_data = <<>>
    /\ batch_index = 0
    /\ processed_messages = 0
    /\ nread = 0
    /\ msg = NoMsg
    /\ calls = <<>>
    /\ frames = <<>>
    /\ pcd_writes = <<>>
    /\ jpg_writes = <<>>
    /\ desc = NoDesc

\* a message that deserializes: its metadata and image_{count:06d}.bin are
\* written, then count += 1
ExtractImage(size) ==
    /\ pc = "extract"
    /\ d_out.count < MaxImageMsgs
    /\ d_out' = [d_out EXCEPT
                   !.files = Append(@, [name |-> d_out.count, size |-> size]),
                   !.meta = Append(@, [kind |-> "image", file |-> d_out.count]),
                   !.count = @ + 1]
    /\ UNCHANGED <<pc, d_msg, pipeline_vars, run>>

\* deserialize_ros1 or deserialize_cdr raises: the handler writes an error
\* entry, then count += 1
ExtractImageRaises ==
    /\ pc = "extract"
    /\ d_out.count < MaxImageMsgs
    /\ d_out' = [d_out EXCEPT
                   !.meta = Append(@, [kind |-> "error", file |-> None]),
                   !.count = @ + 1]
    /\ UNCHANGED <<pc, d_msg, pipeline_vars, run>>

\* reader.messages is exhausted: the number of extracted images is printed
ExtractReport ==
    /\ pc = "extract"
    /\ pc' = "extracted"
    /\ d_out' = [d_out EXCEPT !.reported = d_out.count]
    /\ UNCHANGED <<d_msg, pipeline_vars, run>>

ExtractNext ==
    \/ \E size \in ImageSizes : ExtractImage(size)
    \/ ExtractImageRaises
    \/ ExtractReport

ExtractSpec == ExtractInit /\ [][ExtractNext]_vars

(***************************************************************************)
(* Claims about extract_image_data (ExtractSpec)                           *)
(***************************************************************************)
\* C28: the number printed as extracted images is the number of image files
\* written, and the files are image_000000.bin, image_000001.bin, ... with
\* consecutive numbers, also when messages fail to deserialize.  The handler
\* of a failed message advances count as well, so this fails.
C28_ReportedIsFilesWritten ==
    pc = "extracted" =>
        /\ d_out.reported = Len(d_out.files)
        /\ \A i \in 1..Len(d_out.files) : d_out.files[i].name = i - 1

=============================================================================
